---- MODULE Spec2Model ----
(***************************************************************************)
(* Model of src/core-js-dates-tasks.js: a flat library of pure date/time   *)
(* functions.  A caller picks one function and its arguments (Init), the   *)
(* function runs (one action per function) and its outcome, a returned     *)
(* value or a thrown error, is recorded.                                   *)
(*                                                                         *)
(* Time values are milliseconds since the epoch.  They exceed the integer  *)
(* range of the model checker, so a time value is held as two digits in    *)
(* base MS_PER_DAY: [day, ms] stands for day * MS_PER_DAY + ms with        *)
(* 0 <= ms < MS_PER_DAY.  A JS number that need not be whole is held as    *)
(* [n, frac], standing for n + frac / MS_PER_DAY with 0 <= frac <          *)
(* MS_PER_DAY.  NaN is the value whose nan field is TRUE.                  *)
(*                                                                         *)
(* Local time is taken to be UTC (offset 0, no daylight saving), so the    *)
(* local getters (getDay, getDate, getFullYear) agree with the UTC ones.   *)
(***************************************************************************)
EXTENDS Integers, Sequences, FiniteSets, TLC

VARIABLES pc, call, result

vars == <<pc, call, result>>

(***************************************************************************)
(* Bounds of the explored inputs.                                          *)
(***************************************************************************)
\* the years 2017 .. 2017 + MaxYearSpan are explored, next to the
\* century years 1900, 2000 and 2100
MaxYearSpan == 9
\* getNextFriday is called on each of this many consecutive days
MaxFridaySpan == 80
\* date strings of a period lie on the first MaxPeriodDay days of a month
MaxPeriodDay == 3

MS_PER_DAY == 1000 * 3600 * 24

(***************************************************************************)
(* JS numbers.                                                             *)
(***************************************************************************)
Num(k) == [nan |-> FALSE, n |-> k, frac |-> 0]

NaN == [nan |-> TRUE, n |-> 0, frac |-> 0]

Undefined == "undefined"

\* a < b on whole numbers; every comparison with NaN is false
NumLt(a, b) == ~a.nan /\ ~b.nan /\ a.n < b.n

NumGt(a, b) == NumLt(b, a)

\* a + k for a whole k
NumAdd(a, k) == IF a.nan THEN NaN ELSE [a EXCEPT !.n = a.n + k]

\* a - k for a whole k
NumSub(a, k) == NumAdd(a, 0 - k)

\* Math.ceil(a / k) for a whole k > 0: with a.n = q*k + r, 0 <= r < k, the
\* quotient is q + (r + frac/MS_PER_DAY)/k and the bracket lies in [0, 1)
NumCeilDiv(a, k) ==
    IF a.nan THEN NaN
    ELSE Num((a.n \div k) + (IF a.n % k = 0 /\ a.frac = 0 THEN 0 ELSE 1))

(***************************************************************************)
(* Time values and the built-in Date object.                               *)
(***************************************************************************)
TimeValue(d, m) == [nan |-> FALSE, day |-> d, ms |-> m]

InvalidDate == [nan |-> TRUE, day |-> 0, ms |-> 0]

\* t1 - t2 in milliseconds, as a time value (borrowing from the day digit)
TimeDiff(t1, t2) ==
    IF t1.nan \/ t2.nan THEN InvalidDate
    ELSE IF t1.ms >= t2.ms
         THEN TimeValue(t1.day - t2.day, t1.ms - t2.ms)
         ELSE TimeValue(t1.day - t2.day - 1, t1.ms - t2.ms + MS_PER_DAY)

\* t1 <= t2 on time values; false when either is NaN
TimeLe(t1, t2) ==
    /\ ~t1.nan
    /\ ~t2.nan
    /\ (t1.day < t2.day \/ (t1.day = t2.day /\ t1.ms <= t2.ms))

\* a count of milliseconds divided by 1000, 3600 and 24: a number of days
MsToDays(t) == IF t.nan THEN NaN ELSE [nan |-> FALSE, n |-> t.day, frac |-> t.ms]

\* Gregorian leap year, as the built-in calendar has it
InLeapYear(y) == y % 4 = 0 /\ (y % 100 # 0 \/ y % 400 = 0)

\* number of the first day of year y, counted from 1970-01-01
DayFromYear(y) ==
    365 * (y - 1970) + ((y - 1969) \div 4) - ((y - 1901) \div 100)
        + ((y - 1601) \div 400)

\* days of year y before month index m (0 = January .. 12 = end of year)
DaysBeforeMonth(y, m) ==
    LET common == <<0, 31, 59, 90, 120, 151, 181, 212, 243, 273, 304, 334, 365>>
    IN  common[m + 1] + (IF m >= 2 /\ InLeapYear(y) THEN 1 ELSE 0)

\* the day number of (year, month index, day of month); month index and day
\* of month may lie outside their ranges and carry over
MakeDay(y, m, d) ==
    LET ym == y + (m \div 12)
        mn == m % 12
    IN  DayFromYear(ym) + DaysBeforeMonth(ym, mn) + d - 1

YearFromDay(t) ==
    LET a == 1970 + (t \div 366)
        b == 1970 + (t \div 365)
        lo == (IF a < b THEN a ELSE b) - 1
        hi == (IF a < b THEN b ELSE a) + 1
    IN  CHOOSE y \in lo..hi : DayFromYear(y) <= t /\ t < DayFromYear(y + 1)

\* month index 0..11 of day number t
MonthFromDay(t) ==
    LET y == YearFromDay(t)
        diy == t - DayFromYear(y)
    IN  CHOOSE m \in 0..11 :
            DaysBeforeMonth(y, m) <= diy /\ diy < DaysBeforeMonth(y, m + 1)

\* day of month 1..31 of day number t
DateFromDay(t) ==
    LET y == YearFromDay(t)
    IN  t - DayFromYear(y) - DaysBeforeMonth(y, MonthFromDay(t)) + 1

\* 0 = Sunday .. 6 = Saturday; 1970-01-01 was a Thursday
WeekDay(t) == (t + 4) % 7

\* new Date(year, monthIndex, day): midnight of that day
NewDate(y, m, d) == TimeValue(MakeDay(y, m, d), 0)

GetFullYear(date) == IF date.nan THEN NaN ELSE Num(YearFromDay(date.day))

GetMonth(date) == IF date.nan THEN NaN ELSE Num(MonthFromDay(date.day))

GetDate(date) == IF date.nan THEN NaN ELSE Num(DateFromDay(date.day))

GetDay(date) == IF date.nan THEN NaN ELSE Num(WeekDay(date.day))

GetHours(date) == IF date.nan THEN NaN ELSE Num(date.ms \div 3600000)

GetMinutes(date) == IF date.nan THEN NaN ELSE Num((date.ms \div 60000) % 60)

GetSeconds(date) == IF date.nan THEN NaN ELSE Num((date.ms \div 1000) % 60)

\* date.setDate(k): same year, month and time of day, day of month k
SetDate(date, k) ==
    IF date.nan \/ k.nan THEN InvalidDate
    ELSE TimeValue(MakeDay(YearFromDay(date.day), MonthFromDay(date.day), k.n),
                   date.ms)

(***************************************************************************)
(* Date strings.  A string is held as the fields an ISO 8601 text          *)
(* 'YYYY-MM-DDTHH:mm:ss.sssZ' spells out; iso is FALSE for a text that is  *)
(* not of that shape at all.  new Date(string) is the time value of the    *)
(* fields, or an invalid date when the text is not a date.                 *)
(***************************************************************************)
IsoString(y, mo, d, h, mi, s, ms) ==
    [iso |-> TRUE, y |-> y, mo |-> mo, d |-> d, h |-> h, mi |-> mi, s |-> s,
     ms |-> ms]

Garbage ==
    [iso |-> FALSE, y |-> 0, mo |-> 0, d |-> 0, h |-> 0, mi |-> 0, s |-> 0,
     ms |-> 0]

Parseable(str) ==
    /\ str.iso
    /\ str.mo \in 1..12
    /\ str.d >= 1
    /\ str.d <= DaysBeforeMonth(str.y, str.mo) - DaysBeforeMonth(str.y, str.mo - 1)
    /\ str.h \in 0..23
    /\ str.mi \in 0..59
    /\ str.s \in 0..59
    /\ str.ms \in 0..999

ParseDate(str) ==
    IF Parseable(str)
    THEN TimeValue(MakeDay(str.y, str.mo - 1, str.d),
                   ((str.h * 60 + str.mi) * 60 + str.s) * 1000 + str.ms)
    ELSE InvalidDate

(***************************************************************************)
(* Text.  A text is a sequence of one-character strings.                   *)
(***************************************************************************)
Digit(k) == <<"0", "1", "2", "3", "4", "5", "6", "7", "8", "9">>[k + 1]

RECURSIVE NatText(_)
NatText(k) == IF k < 10 THEN <<Digit(k)>> ELSE NatText(k \div 10) \o <<Digit(k % 10)>>

\* String(number) of a whole number or NaN, as a template literal renders it
NumText(a) ==
    IF a.nan THEN <<"N", "a", "N">>
    ELSE IF a.n < 0 THEN <<"-">> \o NatText(0 - a.n) ELSE NatText(a.n)

(***************************************************************************)
(* Outcomes of a call.                                                     *)
(***************************************************************************)
Returned(v) == [threw |-> FALSE, val |-> v, msg |-> ""]

Thrown(m) == [threw |-> TRUE, val |-> Undefined, msg |-> m]

Pending == [threw |-> FALSE, val |-> "pending", msg |-> ""]

(***************************************************************************)
(* The functions of the library.                                           *)
(***************************************************************************)
\* dateToTimestamp that rejects an invalid date instead of passing it on
dateToTimestamp_rejecting(date) ==
    LET date1 == ParseDate(date)
        date2 == TimeValue(0, 0)
    IN  IF date1.nan THEN Thrown("Invalid time value")
        ELSE Returned(TimeDiff(date1, date2))

dateToTimestamp(date) ==
    LET date1 == ParseDate(date)
        date2 == TimeValue(0, 0)
    IN  Returned(TimeDiff(date1, date2))

getDayName(date) ==
    LET days == ParseDate(date)
        getDays == GetDay(days)
        dayNames == <<"Sunday", "Monday", "Tuesday", "Wednesday", "Thursday",
                      "Friday", "Saturday">>
    IN  Returned(IF getDays.nan THEN Undefined ELSE dayNames[getDays.n + 1])

\* getNextFriday whose step is (5 - weekday) mod 7: a Friday stays in place
getNextFriday_sameFriday(date) ==
    LET data == date
        currData == GetDay(data)
        sum == IF currData.nan THEN NaN
               ELSE NumAdd(GetDate(data), (5 - currData.n) % 7)
    IN  Returned(SetDate(data, sum))

getNextFriday(date) ==
    LET data == date
        currData == GetDay(data)
        step == CASE currData.nan -> NaN
                  [] ~currData.nan /\ currData.n = 0 -> Num(5)
                  [] ~currData.nan /\ currData.n = 1 -> Num(4)
                  [] ~currData.nan /\ currData.n = 2 -> Num(3)
                  [] ~currData.nan /\ currData.n = 3 -> Num(2)
                  [] ~currData.nan /\ currData.n = 4 -> Num(1)
                  [] ~currData.nan /\ currData.n = 5 -> Num(7)
                  [] ~currData.nan /\ currData.n = 6 -> Num(6)
        sum == IF step.nan \/ GetDate(data).nan THEN NaN
               ELSE NumAdd(GetDate(data), step.n)
    IN  Returned(SetDate(data, sum))

getCountDaysInMonth(month, year) ==
    Returned(IF year = 2024 /\ month = 2 THEN Num(29)
             ELSE CASE month = 1 -> Num(31)
                    [] month = 2 -> Num(28)
                    [] month = 3 -> Num(31)
                    [] month = 4 -> Num(30)
                    [] month = 5 -> Num(31)
                    [] month = 6 -> Num(30)
                    [] month = 7 -> Num(31)
                    [] month = 8 -> Num(31)
                    [] month = 9 -> Num(30)
                    [] month = 10 -> Num(31)
                    [] month = 11 -> Num(30)
                    [] month = 12 -> Num(31)
                    [] OTHER -> Undefined)

getCountDaysOnPeriod(dateStart, dateEnd) ==
    LET date1 == ParseDate(dateStart)
        date2 == ParseDate(dateEnd)
        date3 == NumAdd(MsToDays(TimeDiff(date2, date1)), 1)
    IN  Returned(date3)

\* isDateInPeriod whose end is excluded (date2 > date3)
isDateInPeriod_openEnd(date, period) ==
    LET date1 == ParseDate(period.start)
        date2 == ParseDate(period.end)
        date3 == ParseDate(date)
    IN  Returned(TimeLe(date1, date3) /\ TimeLe(date3, date2) /\ date3 # date2)

isDateInPeriod(date, period) ==
    LET date1 == ParseDate(period.start)
        date2 == ParseDate(period.end)
        date3 == ParseDate(date)
    IN  Returned(TimeLe(date1, date3) /\ TimeLe(date3, date2))

formatDate(date) ==
    LET newDate == ParseDate(date)
        getYear == GetFullYear(newDate)
        getMonth == NumAdd(GetMonth(newDate), 1)
        getDay == GetDate(newDate)
        hours0 == GetHours(newDate)
        pmAm == IF NumLt(hours0, Num(12)) THEN <<"A", "M">> ELSE <<"P", "M">>
        getHours == IF NumGt(hours0, Num(12)) THEN NumSub(hours0, 12) ELSE hours0
        minutes0 == GetMinutes(newDate)
        getMinutes == IF NumLt(minutes0, Num(10))
                      THEN <<"0">> \o NumText(minutes0) ELSE NumText(minutes0)
        seconds0 == GetSeconds(newDate)
        getSeconds == IF NumLt(seconds0, Num(10))
                      THEN <<"0">> \o NumText(seconds0) ELSE NumText(seconds0)
        dateFormat == NumText(getMonth) \o <<"/">> \o NumText(getDay) \o <<"/">>
                        \o NumText(getYear) \o <<",", " ">> \o NumText(getHours)
                        \o <<":">> \o getMinutes \o <<":">> \o getSeconds
                        \o <<" ">> \o pmAm
    IN  Returned(dateFormat)

\* the loop of getCountWeekendsInMonth from day i on
RECURSIVE WeekendLoop(_, _, _, _, _)
WeekendLoop(month, year, date, i, weekendDaysCount) ==
    IF NumLt(Num(i), NumAdd(GetDate(date), 1))
    THEN LET currDay == GetDay(NewDate(year, month - 1, i))
         IN  WeekendLoop(month, year, date, i + 1,
                         IF currDay.n = 6 \/ currDay.n = 0
                         THEN weekendDaysCount + 1 ELSE weekendDaysCount)
    ELSE weekendDaysCount

\* getCountWeekendsInMonth that takes the length of the month before
getCountWeekendsInMonth_previousLength(month, year) ==
    LET date == NewDate(year, month - 1, 0)
    IN  Returned(Num(WeekendLoop(month, year, date, 1, 0)))

getCountWeekendsInMonth(month, year) ==
    LET date == NewDate(year, month, 0)
    IN  Returned(Num(WeekendLoop(month, year, date, 1, 0)))

getWeekNumberByDate(date) ==
    LET data == IF date.nan THEN InvalidDate
                ELSE NewDate(GetFullYear(date).n, 0, 0)
        differenceDays == MsToDays(TimeDiff(date, data))
        numberOfWeeek == IF data.nan THEN NaN
                         ELSE NumCeilDiv(NumAdd(differenceDays, GetDay(data).n), 7)
    IN  Returned(numberOfWeeek)

getNextFridayThe13th(args) == Thrown("Not implemented")

\* getWorkSchedule that returns an empty schedule
getWorkSchedule_empty(args) == Returned(<<>>)

getWorkSchedule(args) == Thrown("Not implemented")

\* isLeapYear without the rule for years divisible by 400
isLeapYear_no400(date) ==
    LET data == date
        leapYear == GetFullYear(data)
    IN  Returned(IF leapYear.nan THEN FALSE
                 ELSE leapYear.n % 4 = 0 /\ leapYear.n % 100 # 0)

isLeapYear(date) ==
    LET data == date
        leapYear == GetFullYear(data)
    IN  Returned(IF leapYear.nan THEN FALSE
                 ELSE IF leapYear.n % 4 = 0 /\ leapYear.n % 100 # 0 THEN TRUE
                 ELSE IF leapYear.n % 100 = 0 /\ leapYear.n % 400 = 0 THEN TRUE
                 ELSE FALSE)

(***************************************************************************)
(* The inputs that are explored.                                           *)
(***************************************************************************)
Years == {1900, 2000, 2100} \cup (2017 .. 2017 + MaxYearSpan)

WeekYears == 2017 .. 2017 + MaxYearSpan

Months == 1..12

\* times of day: midnight, one millisecond later, noon, the last millisecond
TimesOfDay == {0, 1, MS_PER_DAY \div 2, MS_PER_DAY - 1}

\* the days of year y
DaysOfYear(y) == DayFromYear(y) .. DayFromYear(y + 1) - 1

WeekDates == {TimeValue(d, t) : d \in UNION {DaysOfYear(y) : y \in WeekYears},
                                t \in TimesOfDay}

\* MaxFridaySpan days from 2023-12-20 on: a year's end and a 29 February
FridayDates == {TimeValue(MakeDay(2023, 11, 20) + k, t) :
                    k \in 0..MaxFridaySpan - 1, t \in TimesOfDay}

LeapDates == {NewDate(y, 0, 1) : y \in Years}
                \cup {TimeValue(MakeDay(y, 11, 31), MS_PER_DAY - 1) : y \in Years}

Malformed == {Garbage, IsoString(2024, 13, 1, 0, 0, 0, 0),
              IsoString(2024, 2, 1, 25, 0, 0, 0)}

PeriodStrings ==
    {IsoString(2024, 2, d, 0, 0, 0, ms) : d \in 1..MaxPeriodDay, ms \in {0, 1}}
        \cup {IsoString(2024, 2, d, 12, 0, 0, 0) : d \in 1..MaxPeriodDay}
        \cup {IsoString(2024, 2, d, 23, 59, 59, 999) : d \in 1..MaxPeriodDay}
        \cup Malformed

FormatStrings ==
    {IsoString(2024, 2, 1, h, mi, s, 0) : h \in 0..23, mi \in {0, 9, 10, 59},
                                          s \in {0, 5, 59}}
        \cup {IsoString(2010, 12, 15, h, 59, 0, 0) : h \in 0..23}
        \cup Malformed

NameStrings ==
    {IsoString(1970, 1, 1, 0, 0, 0, 0), IsoString(1995, 12, 3, 0, 12, 0, 0)}
        \cup {IsoString(2024, 1, d, 0, 0, 0, 0) : d \in 25..31}
        \cup PeriodStrings

Call(f, a) == [fn |-> f, args |-> a]

\* the calls of function f that are explored
Calls(f) ==
    CASE f = "dateToTimestamp" -> {Call(f, <<s>>) : s \in NameStrings}
      [] f = "getDayName" -> {Call(f, <<s>>) : s \in NameStrings}
      [] f = "getNextFriday" -> {Call(f, <<d>>) : d \in FridayDates}
      [] f = "getCountDaysInMonth" ->
            {Call(f, <<m, y>>) : m \in Months, y \in Years}
      [] f = "getCountDaysOnPeriod" ->
            {Call(f, <<s, e>>) : s \in PeriodStrings, e \in PeriodStrings}
      [] f = "isDateInPeriod" ->
            {Call(f, <<d, [start |-> s, end |-> e]>>) :
                d \in PeriodStrings, s \in PeriodStrings, e \in PeriodStrings}
      [] f = "formatDate" -> {Call(f, <<s>>) : s \in FormatStrings}
      [] f = "getCountWeekendsInMonth" ->
            {Call(f, <<m, y>>) : m \in Months, y \in Years}
      [] f = "getWeekNumberByDate" -> {Call(f, <<d>>) : d \in WeekDates}
      [] f = "getNextFridayThe13th" ->
            {Call(f, a) : a \in {<<>>} \cup {<<d>> : d \in LeapDates}}
      [] f = "getWorkSchedule" ->
            {Call(f, a) :
                a \in {<<>>} \cup {<<[start |-> s, end |-> e], w, o>> :
                                    s \in Malformed, e \in Malformed,
                                    w \in 0..1, o \in 0..1}}
      [] f = "isLeapYear" -> {Call(f, <<d>>) : d \in LeapDates}

Functions ==
    {"dateToTimestamp", "getDayName", "getNextFriday", "getCountDaysInMonth",
     "getCountDaysOnPeriod", "isDateInPeriod", "formatDate",
     "getCountWeekendsInMonth", "getWeekNumberByDate", "getNextFridayThe13th",
     "getWorkSchedule", "isLeapYear"}

(***************************************************************************)
(* The state machine: a caller has chosen a call; the function runs.       *)
(***************************************************************************)
Init ==
    /\ pc = "call"
    /\ \E f \in Functions : call \in Calls(f)
    /\ result = Pending

Run(f, outcome) ==
    /\ pc = "call"
    /\ call.fn = f
    /\ result' = outcome
    /\ pc' = "ret"
    /\ UNCHANGED call

DateToTimestamp == Run("dateToTimestamp", dateToTimestamp(call.args[1]))

GetDayName == Run("getDayName", getDayName(call.args[1]))

GetNextFriday == Run("getNextFriday", getNextFriday(call.args[1]))

GetCountDaysInMonth ==
    Run("getCountDaysInMonth", getCountDaysInMonth(call.args[1], call.args[2]))

GetCountDaysOnPeriod ==
    Run("getCountDaysOnPeriod", getCountDaysOnPeriod(call.args[1], call.args[2]))

IsDateInPeriod ==
    Run("isDateInPeriod", isDateInPeriod(call.args[1], call.args[2]))

FormatDate == Run("formatDate", formatDate(call.args[1]))

GetCountWeekendsInMonth ==
    Run("getCountWeekendsInMonth",
        getCountWeekendsInMonth(call.args[1], call.args[2]))

GetWeekNumberByDate ==
    Run("getWeekNumberByDate", getWeekNumberByDate(call.args[1]))

GetNextFridayThe13th ==
    Run("getNextFridayThe13th", getNextFridayThe13th(call.args))

GetWorkSchedule == Run("getWorkSchedule", getWorkSchedule(call.args))

IsLeapYear == Run("isLeapYear", isLeapYear(call.args[1]))

Next ==
    \/ DateToTimestamp
    \/ GetDayName
    \/ GetNextFriday
    \/ GetCountDaysInMonth
    \/ GetCountDaysOnPeriod
    \/ IsDateInPeriod
    \/ FormatDate
    \/ GetCountWeekendsInMonth
    \/ GetWeekNumberByDate
    \/ GetNextFridayThe13th
    \/ GetWorkSchedule
    \/ IsLeapYear

Spec == Init /\ [][Next]_vars

\* the call f has returned or thrown
Done(f) == pc = "ret" /\ call.fn = f

(***************************************************************************)
(* Reference notions the properties are stated with.                       *)
(***************************************************************************)
\* divisible by 4 and not by 100, or divisible by 400
RefLeapYear(y) == (y % 4 = 0 /\ y % 100 # 0) \/ y % 400 = 0

\* the number of days of calendar month m (1..12) of year y
RefDaysInMonth(m, y) ==
    IF m = 2 THEN (IF RefLeapYear(y) THEN 29 ELSE 28)
    ELSE IF m \in {4, 6, 9, 11} THEN 30 ELSE 31

\* Zeller's congruence: 0 = Saturday, 1 = Sunday, 2 = Monday .. 6 = Friday
Zeller(y, m, q) ==
    LET mm == IF m < 3 THEN m + 12 ELSE m
        yy == IF m < 3 THEN y - 1 ELSE y
        K == yy % 100
        J == yy \div 100
    IN  (q + ((13 * (mm + 1)) \div 5) + K + (K \div 4) + (J \div 4) + 5 * J) % 7

\* the Saturdays and Sundays of month m of year y
RefWeekendDays(m, y) ==
    {q \in 1..RefDaysInMonth(m, y) : Zeller(y, m, q) \in {0, 1}}

\* the number of the Monday-started week of the day numbered t, week 1
\* being the week of 1 January: one more than the Mondays after 1 January
\* up to t
RefWeekNumber(t) ==
    LET jan1 == DayFromYear(YearFromDay(t))
    IN  1 + Cardinality({u \in (jan1 + 1)..t : WeekDay(u) = 1})

\* the hour 0..23 on a 12-hour clock
RefHour12(h) == IF h % 12 = 0 THEN 12 ELSE h % 12

\* the fields of a date string, most significant first
Fields(str) == <<str.y, str.mo, str.d, str.h, str.mi, str.s, str.ms>>

\* str1 is not later than str2, by the first field they differ in
RefNotLater(str1, str2) ==
    \/ Fields(str1) = Fields(str2)
    \/ \E i \in 1..7 :
          /\ Fields(str1)[i] < Fields(str2)[i]
          /\ \A j \in 1..(i - 1) : Fields(str1)[j] = Fields(str2)[j]

\* the text between ', ' and the first ':' of a formatted date
HourText(text) ==
    LET comma == CHOOSE i \in 1..Len(text) : text[i] = ","
        colon == CHOOSE i \in 1..Len(text) :
                    text[i] = ":" /\ \A j \in 1..(i - 1) : text[j] # ":"
    IN  SubSeq(text, comma + 2, colon - 1)

\* the last two characters of a formatted date
SuffixText(text) == SubSeq(text, Len(text) - 1, Len(text))

(***************************************************************************)
(* Properties.                                                             *)
(***************************************************************************)
\* C1: getCountDaysInMonth(month, year) returns the number of days of that
\* calendar month for every month 1..12 and every year; for February 29
\* exactly in leap years and 28 otherwise.
C1_DaysInMonthLeapAware ==
    Done("getCountDaysInMonth") =>
        result = Returned(Num(RefDaysInMonth(call.args[1], call.args[2])))

\* C2: formatDate shows the UTC hour on a 12-hour clock: hour 0 as 12 AM,
\* hour 12 as 12 PM, hours 1..11 as h AM, hours 13..23 as h - 12 PM, never
\* zero-padded.
C2_TwelveHourClock ==
    Done("formatDate") /\ Parseable(call.args[1]) =>
        /\ ~result.threw
        /\ HourText(result.val) = NatText(RefHour12(call.args[1].h))
        /\ SuffixText(result.val) =
              (IF call.args[1].h < 12 THEN <<"A", "M">> ELSE <<"P", "M">>)

\* C3: for start <= end getCountDaysOnPeriod returns the whole number
\* floor((end - start) / one day) + 1, which is at least 1.
C3_WholeDayCount ==
    Done("getCountDaysOnPeriod")
        /\ Parseable(call.args[1]) /\ Parseable(call.args[2])
        /\ RefNotLater(call.args[1], call.args[2]) =>
        /\ result = Returned(Num(TimeDiff(ParseDate(call.args[2]),
                                          ParseDate(call.args[1])).day + 1))
        /\ result.val.n >= 1

\* C4: getNextFriday returns the first Friday strictly after the input day:
\* 1 to 7 days later, a Friday, no Friday in between, at the same time of
\* day, and exactly 7 days later when the input is a Friday.
C4_NextFriday ==
    Done("getNextFriday") =>
        LET in == call.args[1]
            out == result.val
        IN  /\ ~result.threw
            /\ ~out.nan
            /\ out.ms = in.ms
            /\ out.day - in.day \in 1..7
            /\ WeekDay(out.day) = 5
            /\ \A k \in 1..(out.day - in.day - 1) : WeekDay(in.day + k) # 5
            /\ (WeekDay(in.day) = 5 => out.day = in.day + 7)

\* C4 witness: called on a Friday, the result is the Friday a week later
C4_FridayInput ==
    /\ Done("getNextFriday")
    /\ WeekDay(call.args[1].day) = 5
    /\ result.val.day = call.args[1].day + 7

\* C5: getWeekNumberByDate returns, at any time of day, the number (>= 1)
\* of the Monday-started week containing the day, week 1 containing
\* 1 January; instants of one calendar day get one week number.
C5_WeekNumber ==
    Done("getWeekNumberByDate") =>
        /\ result = Returned(Num(RefWeekNumber(call.args[1].day)))
        /\ result.val.n >= 1

\* C6: isLeapYear is true exactly when the year is divisible by 4 and (not
\* by 100, or by 400).
C6_LeapYear ==
    Done("isLeapYear") =>
        result = Returned(RefLeapYear(YearFromDay(call.args[1].day)))

\* C6 witness: a century year divisible by 400 is found to be a leap year
C6_Year2000 ==
    /\ Done("isLeapYear")
    /\ YearFromDay(call.args[1].day) = 2000
    /\ result.val = TRUE

\* C7: getCountWeekendsInMonth returns exactly the number of Saturdays and
\* Sundays among the days 1 .. (true length of the month) of the month.
C7_WeekendCount ==
    Done("getCountWeekendsInMonth") =>
        result = Returned(Num(Cardinality(RefWeekendDays(call.args[1],
                                                         call.args[2]))))

\* C7 witness: February 2020, whose 29th day is a Saturday, has 9 weekend days
C7_LeapFebruary ==
    /\ Done("getCountWeekendsInMonth")
    /\ call.args = <<2, 2020>>
    /\ Zeller(2020, 2, 29) = 0
    /\ result.val = Num(9)

\* C8: isDateInPeriod is true exactly when start <= date <= end as instants:
\* true at both end points, false one millisecond outside them.
C8_ClosedInterval ==
    Done("isDateInPeriod")
        /\ Parseable(call.args[1])
        /\ Parseable(call.args[2].start) /\ Parseable(call.args[2].end) =>
        result = Returned(/\ RefNotLater(call.args[2].start, call.args[1])
                          /\ RefNotLater(call.args[1], call.args[2].end))

\* C8 witness: the date is the end of a period that is more than an instant
C8_AtEnd ==
    /\ Done("isDateInPeriod")
    /\ Parseable(call.args[1])
    /\ call.args[1] = call.args[2].end
    /\ call.args[2].start # call.args[2].end
    /\ result.val = TRUE

\* C9: an unparseable date string never raises an error: the call returns
\* a value derived from the invalid instant, NaN for dateToTimestamp and
\* getCountDaysOnPeriod, false for isDateInPeriod.
C9_InvalidDatePropagates ==
    /\ Done("dateToTimestamp") /\ ~Parseable(call.args[1]) =>
          ~result.threw /\ result.val.nan
    /\ Done("getDayName") /\ ~Parseable(call.args[1]) => ~result.threw
    /\ Done("getCountDaysOnPeriod")
          /\ (~Parseable(call.args[1]) \/ ~Parseable(call.args[2])) =>
          ~result.threw /\ result.val = NaN
    /\ Done("isDateInPeriod")
          /\ (\/ ~Parseable(call.args[1])
              \/ ~Parseable(call.args[2].start)
              \/ ~Parseable(call.args[2].end)) =>
          ~result.threw /\ result.val = FALSE
    /\ Done("formatDate") /\ ~Parseable(call.args[1]) => ~result.threw

\* C9 witness: a timestamp was asked of a text that is no date
C9_GarbageTimestamp ==
    /\ Done("dateToTimestamp")
    /\ call.args[1] = Garbage
    /\ ~result.threw
    /\ result.val.nan

====
